---------------------------- MODULE Spec2Model ----------------------------
(***************************************************************************)
(* A model of the retrieval-augmented answer pipeline of the book backend: *)
(* the mode router, the selected-text agent, the RAG agent, the served     *)
(* chat endpoint and its streamed variant, the chunking service, the       *)
(* ingestion of a book and the database connection pool.                   *)
(*                                                                         *)
(* Text is kept run-length encoded: a string is a sequence of runs         *)
(* [c |-> character, n |-> count >= 1] in which adjacent runs carry        *)
(* different characters, so that strings of 5000 characters and more are   *)
(* ordinary values.  Scores are kept in hundredths (0.4 is 40).            *)
(***************************************************************************)
EXTENDS Integers, Sequences, FiniteSets, TLC

VARIABLES
    pc,          \* position of the request in its handler
    caller,      \* which entry point is being run
    modeField,   \* the mode field of the submitted body ("absent" when left out)
    request,     \* the ChatRequest
    modeArg,     \* the mode argument of RAGAgent.chat
    detected,    \* what RouterAgent.detect_mode returned
    path,        \* the path RAGAgent.chat took
    forced,      \* selected_text after sanitising (the passage of forced_context)
    embedded,    \* the text handed to cohere_service.embed_text
    searchResults, \* the points the vector index returned
    chunks,      \* the retrieved chunks (or additional_chunks)
    calls,       \* external calls issued for this request
    result,      \* the dictionary / response returned
    raised,      \* the external call that raised ("" when none did)
    outcome,     \* "none", "Answered", "Refused", "Returned", "Error", "Raised"
    nresults,    \* how many results the request has yielded
    service,     \* the ChunkingService: chunk_size and chunk_overlap
    text,        \* the text handed to chunk_text
    source_file, \* the source_file handed to chunk_text
    paragraphs,  \* chunk_text: the paragraphs of the text
    next_paragraph,   \* chunk_text: index of the paragraph the loop is at
    current_chunk,    \* chunk_text: the buffer
    current_position, \* chunk_text: position of the next chunk
    chunks_out,  \* chunk_text: the chunks appended so far
    index,       \* the points of the Qdrant collection
    entry,       \* ingestion: "ingest_book" (the endpoint) or "main"
    ingest_request, \* ingestion: the IngestRequest (book_path, book_id)
    orchestrator,   \* ingestion: the BookIngestionOrchestrator
    batch_start, \* _store_in_qdrant: the i of its loop
    retrying,    \* _store_in_qdrant: inside the handler of a failed upsert
    upserts,     \* the upsert calls of the run: batch, success, sleep before
    deletes,     \* the delete calls of the run: store and book_id
    ingested,    \* how ingest() ended: "none", "returned", "raised"
    response,    \* what the ingest endpoint answered
    completed,   \* the requests of the runs whose ingest() returned
    runs,        \* ingestion runs started
    disk,        \* how many chunks each source on disk makes as it stands
    stream,      \* chat_stream: where its event generator is
    stream_pos,  \* chat_stream: the i of the loop over the answer
    events,      \* chat_stream: the events yielded so far
    pool,        \* DatabaseConnection._pool (0 is None)
    pools,       \* the pools asyncpg.create_pool has returned
    tasks        \* the concurrent callers of DatabaseConnection

\* The state of a chat request.
requestVars ==
    <<caller, modeField, request, modeArg, detected, path, forced, embedded,
      searchResults, chunks, calls, result, raised, outcome, nresults>>

\* The state of a chunk_text call.
chunkVars ==
    <<service, text, source_file, paragraphs, next_paragraph, current_chunk,
      current_position, chunks_out>>

\* The state of the index and of an ingestion run.
ingestVars ==
    <<index, entry, ingest_request, orchestrator, batch_start, retrying,
      upserts, deletes, ingested, response, completed, runs, disk>>

\* The state of a chat_stream response.
streamVars == <<stream, stream_pos, events>>

\* The state of the DatabaseConnection class and of its callers.
poolVars == <<pool, pools, tasks>>

vars == <<pc, requestVars, chunkVars, ingestVars, streamVars, poolVars>>

-----------------------------------------------------------------------------
(* Strings *)

Run(c, n) == [c |-> c, n |-> n]

\* Python's None where a str is expected: a run no string operation produces.
None == <<[c |-> "None", n |-> 0]>>

\* What str.strip() with no argument removes.
Whitespace == {" ", "\n", "\t"}

RECURSIVE StrLen(_)
StrLen(s) == IF s = <<>> THEN 0 ELSE Head(s).n + StrLen(Tail(s))

\* s + t
Concat(s, t) ==
    IF s = <<>> THEN t
    ELSE IF t = <<>> THEN s
    ELSE IF s[Len(s)].c = Head(t).c
         THEN SubSeq(s, 1, Len(s) - 1)
              \o <<Run(Head(t).c, s[Len(s)].n + Head(t).n)>> \o Tail(t)
         ELSE s \o t

\* s[:k]
RECURSIVE Take(_, _)
Take(s, k) ==
    IF k <= 0 \/ s = <<>> THEN <<>>
    ELSE IF Head(s).n <= k
         THEN <<Head(s)>> \o Take(Tail(s), k - Head(s).n)
         ELSE <<Run(Head(s).c, k)>>

RECURSIVE LStrip(_)
LStrip(s) ==
    IF s # <<>> /\ Head(s).c \in Whitespace THEN LStrip(Tail(s)) ELSE s

RECURSIVE RStrip(_)
RStrip(s) ==
    IF s # <<>> /\ s[Len(s)].c \in Whitespace
    THEN RStrip(SubSeq(s, 1, Len(s) - 1))
    ELSE s

\* s.strip()
Strip(s) == RStrip(LStrip(s))

\* bool(s) for an Optional[str]
Truthy(s) == s # None /\ s # <<>>

\* The canonical strings of at most maxRuns runs over the given characters
\* and run lengths.
RECURSIVE StringsOf(_, _, _)
StringsOf(chars, lens, maxRuns) ==
    IF maxRuns = 0 THEN {<<>>}
    ELSE LET shorter == StringsOf(chars, lens, maxRuns - 1)
         IN  shorter \cup
             {s \o <<Run(c, n)>> :
                 <<s, c, n>> \in
                    {t \in shorter \X chars \X lens :
                        /\ Len(t[1]) = maxRuns - 1
                        /\ (t[1] # <<>> => t[1][Len(t[1])].c # t[2])}}

-----------------------------------------------------------------------------
(* Bounds of the model *)

\* Longest strings tried, in runs.
MaxRuns == 3

\* Most points the vector index returns to one search.
MaxResults == 2

-----------------------------------------------------------------------------
(* Program constants *)

\* ChatRequest.selected_text: max_length
MaxSelectedTextLen == 5000

\* answer_with_selected_text: selected_text.strip()[:5000]
SelectedTextCap == 5000

\* answer_with_selected_text: limit of the secondary search
AdditionalLimit == 3

\* the citation snippet: text[:200]
SnippetLen == 200

\* score of the user-selection citation, 1.0
SelectedScore == 100

\* relevance floor of rag_chat, 0.4
RelevanceFloor == 40

FALLBACK_RESPONSE == "I cannot answer this from the book content provided."

Modes == {"full_book", "selected_text"}

-----------------------------------------------------------------------------
(* Requests *)

\* The mode field of the submitted JSON: absent, or one of the two literals.
Absent == "absent"

\* ChatRequest: the model fills an absent mode with its default.
ChatRequest(query, selected_text, book_id, mode, max_chunks) ==
    [query         |-> query,
     selected_text |-> selected_text,
     book_id       |-> book_id,
     mode          |-> IF mode = Absent THEN "full_book" ELSE mode,
     max_chunks    |-> max_chunks]

\* Field constraints of ChatRequest that the handlers rely on.
ValidSelectedText(s) == s = None \/ StrLen(s) <= MaxSelectedTextLen

Queries == {<<Run("q", 1)>>}

SelectedTexts ==
    {None} \cup
    {s \in StringsOf({" ", "x"}, {1, MaxSelectedTextLen - 1}, MaxRuns) :
        ValidSelectedText(s)}

BookIds == {"None", "book-1"}

MaxChunksValues == {1, 5}

-----------------------------------------------------------------------------
(* RouterAgent *)

\* RouterAgent.detect_mode
detect_mode(req) ==
    IF req.mode # ""
    THEN req.mode
    ELSE IF Truthy(req.selected_text) /\ Truthy(Strip(req.selected_text))
         THEN "selected_text"
         ELSE "full_book"

-----------------------------------------------------------------------------
(* The vector index and the generative model, as the handlers see them *)

\* Points the index may hold: payload fields and score.
Points ==
    {[chunk_id |-> "c1", text |-> <<Run("x", SnippetLen)>>,
      source_file |-> "a.md", chapter |-> "Ch1", section |-> "None",
      position |-> 0, score |-> 90],
     [chunk_id |-> "c2", text |-> <<Run("x", SnippetLen + 1)>>,
      source_file |-> "a.md", chapter |-> "None", section |-> "Sec1",
      position |-> 1, score |-> RelevanceFloor],
     [chunk_id |-> "c3", text |-> <<Run("x", 1), Run(" ", 1), Run("x", 1)>>,
      source_file |-> "b.md", chapter |-> "None", section |-> "None",
      position |-> 0, score |-> RelevanceFloor - 1]}

Min(a, b) == IF a <= b THEN a ELSE b

\* What QdrantService.search may return for a limit: any sequence of points
\* of at most that length.
RECURSIVE SeqsUpTo(_, _)
SeqsUpTo(S, n) ==
    IF n = 0 THEN {<<>>}
    ELSE LET shorter == SeqsUpTo(S, n - 1)
         IN  shorter \cup
             {Append(s, x) : <<s, x>> \in {t \in shorter \X S : Len(t[1]) = n - 1}}

SearchResults(limit) == SeqsUpTo(Points, Min(limit, MaxResults))

\* What the generative model may answer.
ModelAnswers == {"An answer from the passages.", FALLBACK_RESPONSE}

-----------------------------------------------------------------------------
(* Results *)

NoResult ==
    [answer |-> "", citations |-> <<>>, mode |-> "", chunks_retrieved |-> -1]

\* dict.get(key, default)
Get(unit, key, default) == IF key \in DOMAIN unit THEN unit[key] ELSE default

\* Mutant: the snippet is cut without the "..." after it.
SnippetCut(s) == IF StrLen(s) > SnippetLen THEN Take(s, SnippetLen) ELSE s

\* text[:200] + "..." if len(text) > 200 else text
Snippet(s) ==
    IF StrLen(s) > SnippetLen
    THEN Concat(Take(s, SnippetLen), <<Run(".", 3)>>)
    ELSE s

\* Mutant: every search result is appended twice.
FormatRetrievedTwice(results) ==
    [i \in 1..(2 * Len(results)) |->
        [chunk_id    |-> results[(i + 1) \div 2].chunk_id,
         text        |-> results[(i + 1) \div 2].text,
         source_file |-> results[(i + 1) \div 2].source_file,
         chapter     |-> results[(i + 1) \div 2].chapter,
         section     |-> results[(i + 1) \div 2].section,
         position    |-> results[(i + 1) \div 2].position,
         score       |-> results[(i + 1) \div 2].score]]

\* RetrieverAgent.retrieve: the formatting of the search results
FormatRetrieved(results) ==
    [i \in 1..Len(results) |->
        [chunk_id    |-> results[i].chunk_id,
         text        |-> results[i].text,
         source_file |-> results[i].source_file,
         chapter     |-> results[i].chapter,
         section     |-> results[i].section,
         position    |-> results[i].position,
         score       |-> results[i].score]]

\* answer_with_selected_text: the formatting of additional_chunks
FormatAdditional(results) ==
    [i \in 1..Len(results) |->
        [chunk_id |-> results[i].chunk_id,
         text     |-> results[i].text,
         source   |-> results[i].source_file,
         score    |-> results[i].score]]

\* RAGAgent._extract_citations
extract_citations(cs) ==
    [i \in 1..Len(cs) |->
        [chunk_id |-> cs[i].chunk_id,
         text     |-> Snippet(cs[i].text),
         source   |-> cs[i].source_file,
         chapter  |-> Get(cs[i], "chapter", "None"),
         section  |-> Get(cs[i], "section", "None"),
         score    |-> Get(cs[i], "score", 0)]]

\* str(s) of a run-length encoded string, for f-strings.
RECURSIVE Repeat(_, _)
Repeat(c, n) ==
    IF n = 0 THEN ""
    ELSE LET half == Repeat(c, n \div 2)
         IN  half \o half \o (IF n % 2 = 1 THEN c ELSE "")

RECURSIVE Str(_)
Str(s) == IF s = <<>> THEN "" ELSE Repeat(Head(s).c, Head(s).n) \o Str(Tail(s))

\* sep.join(pieces) of str pieces
RECURSIVE JoinStr(_, _)
JoinStr(pieces, sep) ==
    IF pieces = <<>> THEN ""
    ELSE IF Len(pieces) = 1 THEN pieces[1]
    ELSE pieces[1] \o sep \o JoinStr(Tail(pieces), sep)

\* bool(a) of an optional str field of a unit
TruthyField(a) == a # "None" /\ a # ""

\* RAGAgent._build_context
build_context(cs) ==
    JoinStr([i \in 1..Len(cs) |->
                LET source == "[" \o Get(cs[i], "source_file", "unknown")
                    header == IF TruthyField(Get(cs[i], "chapter", "None"))
                              THEN source \o " - " \o cs[i].chapter
                              ELSE source
                IN  header \o "\n" \o Str(cs[i].text)],
            "\n\n")

\* RAGAgent._chat_with_selected_text: the user-selection citation
SelectedCitation(selected_text) ==
    [chunk_id |-> "selected",
     text     |-> Snippet(selected_text),
     source   |-> "User Selection",
     chapter  |-> "None",
     section  |-> "None",
     score    |-> SelectedScore]

\* RAGAgent._chat_with_selected_text: citations of the additional chunks
AdditionalCitations(cs) ==
    [i \in 1..Len(cs) |->
        [chunk_id |-> cs[i].chunk_id,
         text     |-> Snippet(cs[i].text),
         source   |-> cs[i].source,
         chapter  |-> "None",
         section  |-> "None",
         score    |-> cs[i].score]]

\* Mutant: the user-selection citation is appended after the others.
SelectedTextCitationsLast(selected_text, cs) ==
    AdditionalCitations(cs) \o <<SelectedCitation(selected_text)>>

\* RAGAgent._chat_with_selected_text: the whole citation list
SelectedTextCitations(selected_text, cs) ==
    <<SelectedCitation(selected_text)>> \o AdditionalCitations(cs)

\* Mutant: the cap is applied before the trimming.
SanitizeCapFirst(selected_text) == Strip(Take(selected_text, SelectedTextCap))

\* answer_with_selected_text: the sanitising of selected_text
Sanitize(selected_text) == Take(Strip(selected_text), SelectedTextCap)

-----------------------------------------------------------------------------
(* RAGAgent.chat and SelectedTextAgent.answer_with_selected_text *)

NoCalls == [embed |-> 0, search |-> 0, chat |-> 0]

\* Mutant: the handler reports the error text, as the endpoints of chat.py do.
FallbackResultReportsError(mode) ==
    [answer |-> "Sorry, I encountered an error", citations |-> <<>>,
     mode |-> mode, chunks_retrieved |-> 0]

\* The fallback dictionary of RAGAgent.chat's exception handler.
FallbackResult(mode) ==
    [answer |-> FALLBACK_RESPONSE, citations |-> <<>>, mode |-> mode,
     chunks_retrieved |-> 0]

\* The dictionary RAGAgent.chat returns from what the path returned.
ChatResult(answer, citations, mode, chunks_retrieved) ==
    [answer |-> answer, citations |-> citations, mode |-> mode,
     chunks_retrieved |-> chunks_retrieved]

\* The dictionary answer_with_selected_text returns.
SelectedTextResult(selected_text, additional_chunks) ==
    [forced_context    |-> [header |-> "[Selected Text]", passage |-> selected_text],
     selected_text     |-> selected_text,
     additional_chunks |-> additional_chunks,
     mode              |-> "selected_text"]

\* Mutant: the condition looks at the trimmed selected_text.
ChosenPathTrimmed(mode, selected_text) ==
    IF mode = "selected_text" /\ Truthy(selected_text)
          /\ Truthy(Strip(selected_text))
    THEN "selected_text"
    ELSE "full_book"

\* RAGAgent.chat: which path the condition of the try block selects.
ChosenPath(mode, selected_text) ==
    IF mode = "selected_text" /\ Truthy(selected_text)
    THEN "selected_text"
    ELSE "full_book"

\* A request reaches the router: RouterAgent.detect_mode.
Route ==
    /\ pc = "new"
    /\ caller = "rag_agent"
    /\ detected' = detect_mode(request)
    /\ pc' = "routed"
    /\ UNCHANGED <<caller, modeField, request, modeArg, path, forced, embedded,
                   searchResults, chunks, calls, result, raised, outcome,
                   nresults>>
    /\ UNCHANGED chunkVars
    /\ UNCHANGED ingestVars
    /\ UNCHANGED streamVars
    /\ UNCHANGED poolVars

\* RAGAgent.chat(request, mode) up to its first await: the path is chosen and
\* the embedding call of that path is issued.
Chat(mode) ==
    /\ pc = "routed"
    /\ caller = "rag_agent"
    /\ modeArg' = mode
    /\ path' = ChosenPath(mode, request.selected_text)
    /\ IF path' = "selected_text"
       THEN /\ forced' = Sanitize(request.selected_text)
            /\ embedded' = forced'
       ELSE /\ forced' = forced
            /\ embedded' = request.query
    /\ calls' = [calls EXCEPT !.embed = @ + 1]
    /\ pc' = "embed"
    /\ UNCHANGED <<caller, modeField, request, detected, searchResults, chunks,
                   result, raised, outcome, nresults>>
    /\ UNCHANGED chunkVars
    /\ UNCHANGED ingestVars
    /\ UNCHANGED streamVars
    /\ UNCHANGED poolVars

\* answer_with_selected_text called on its own, up to its first await.
AnswerWithSelectedText ==
    /\ pc = "new"
    /\ caller = "selected_text_agent"
    /\ path' = "selected_text"
    /\ forced' = Sanitize(request.selected_text)
    /\ IF request.retrieve_additional
       THEN /\ embedded' = forced'
            /\ calls' = [calls EXCEPT !.embed = @ + 1]
            /\ pc' = "embed"
            /\ UNCHANGED <<result, outcome, nresults>>
       ELSE /\ result' = SelectedTextResult(forced', <<>>)
            /\ outcome' = "Returned"
            /\ nresults' = nresults + 1
            /\ pc' = "done"
            /\ UNCHANGED <<embedded, calls>>
    /\ UNCHANGED <<caller, modeField, request, modeArg, detected, searchResults,
                   chunks, raised>>
    /\ UNCHANGED chunkVars
    /\ UNCHANGED ingestVars
    /\ UNCHANGED streamVars
    /\ UNCHANGED poolVars

\* Mutant: RAGAgent.chat without its exception handler.
RaisedUncaught(call) ==
    /\ raised' = call
    /\ pc' = "done"
    /\ outcome' = "Raised"
    /\ UNCHANGED <<result, nresults>>

\* An exception leaves the awaited call: RAGAgent.chat catches it and returns
\* the fallback; answer_with_selected_text on its own lets it propagate.
Raised(call) ==
    /\ raised' = call
    /\ pc' = "done"
    /\ IF caller = "rag_agent"
       THEN /\ result' = FallbackResult(modeArg)
            /\ outcome' = "Refused"
            /\ nresults' = nresults + 1
       ELSE /\ outcome' = "Raised"
            /\ UNCHANGED <<result, nresults>>

\* cohere_service.embed_text returns: the search is issued.
EmbedReturns ==
    /\ pc = "embed"
    /\ pc' = "search"
    /\ calls' = [calls EXCEPT !.search = @ + 1]
    /\ UNCHANGED <<caller, modeField, request, modeArg, detected, path, forced,
                   embedded, searchResults, chunks, result, raised, outcome,
                   nresults>>
    /\ UNCHANGED chunkVars
    /\ UNCHANGED ingestVars
    /\ UNCHANGED streamVars
    /\ UNCHANGED poolVars

\* cohere_service.embed_text raises.
EmbedRaises ==
    /\ pc = "embed"
    /\ Raised("embed")
    /\ UNCHANGED <<caller, modeField, request, modeArg, detected, path, forced,
                   embedded, searchResults, chunks, calls>>
    /\ UNCHANGED chunkVars
    /\ UNCHANGED ingestVars
    /\ UNCHANGED streamVars
    /\ UNCHANGED poolVars

\* Mutant: the emptiness of the retrieval is not looked at.
NoChunksUnchecked(cs) == FALSE

\* _chat_full_book: "if not chunks"
NoChunks(cs) == cs = <<>>

\* The limit the path hands to qdrant_service.search.
SearchLimit == IF path = "full_book" THEN request.max_chunks ELSE AdditionalLimit

\* qdrant_service.search returns: the path goes on to its next await or ends.
SearchReturns(results) ==
    /\ pc = "search"
    /\ searchResults' = results
    /\ IF path = "selected_text"
       THEN /\ chunks' = FormatAdditional(results)
            /\ IF caller = "rag_agent"
               THEN /\ calls' = [calls EXCEPT !.chat = @ + 1]
                    /\ pc' = "generate"
                    /\ UNCHANGED <<result, outcome, nresults>>
               ELSE /\ result' = SelectedTextResult(forced, chunks')
                    /\ outcome' = "Returned"
                    /\ nresults' = nresults + 1
                    /\ pc' = "done"
                    /\ UNCHANGED calls
       ELSE /\ chunks' = FormatRetrieved(results)
            /\ IF NoChunks(chunks')
               THEN /\ result' = ChatResult(FALLBACK_RESPONSE, <<>>, modeArg, 0)
                    /\ outcome' = "Refused"
                    /\ nresults' = nresults + 1
                    /\ pc' = "done"
                    /\ UNCHANGED calls
               ELSE /\ calls' = [calls EXCEPT !.chat = @ + 1]
                    /\ pc' = "generate"
                    /\ UNCHANGED <<result, outcome, nresults>>
    /\ UNCHANGED <<caller, modeField, request, modeArg, detected, path, forced,
                   embedded, raised>>
    /\ UNCHANGED chunkVars
    /\ UNCHANGED ingestVars
    /\ UNCHANGED streamVars
    /\ UNCHANGED poolVars

\* qdrant_service.search raises.
SearchRaises ==
    /\ pc = "search"
    /\ Raised("search")
    /\ UNCHANGED <<caller, modeField, request, modeArg, detected, path, forced,
                   embedded, searchResults, chunks, calls>>
    /\ UNCHANGED chunkVars
    /\ UNCHANGED ingestVars
    /\ UNCHANGED streamVars
    /\ UNCHANGED poolVars

\* Mutant: the pinned-passage path counts the additional chunks only.
GenerateReturnsCountsAdditional(answer) ==
    /\ pc = "generate"
    /\ result' =
          IF path = "selected_text"
          THEN ChatResult(answer,
                          SelectedTextCitations(request.selected_text, chunks),
                          modeArg, Len(chunks))
          ELSE ChatResult(answer, extract_citations(chunks), modeArg, Len(chunks))
    /\ outcome' = "Answered"
    /\ nresults' = nresults + 1
    /\ pc' = "done"
    /\ UNCHANGED <<caller, modeField, request, modeArg, detected, path, forced,
                   embedded, searchResults, chunks, calls, raised>>
    /\ UNCHANGED chunkVars
    /\ UNCHANGED ingestVars
    /\ UNCHANGED streamVars
    /\ UNCHANGED poolVars

\* cohere_service.chat returns: citations are built and the result returned.
GenerateReturns(answer) ==
    /\ pc = "generate"
    /\ result' =
          IF path = "selected_text"
          THEN ChatResult(answer,
                          SelectedTextCitations(request.selected_text, chunks),
                          modeArg, Len(chunks) + 1)
          ELSE ChatResult(answer, extract_citations(chunks), modeArg, Len(chunks))
    /\ outcome' = "Answered"
    /\ nresults' = nresults + 1
    /\ pc' = "done"
    /\ UNCHANGED <<caller, modeField, request, modeArg, detected, path, forced,
                   embedded, searchResults, chunks, calls, raised>>
    /\ UNCHANGED chunkVars
    /\ UNCHANGED ingestVars
    /\ UNCHANGED streamVars
    /\ UNCHANGED poolVars

\* cohere_service.chat raises.
GenerateRaises ==
    /\ pc = "generate"
    /\ Raised("chat")
    /\ UNCHANGED <<caller, modeField, request, modeArg, detected, path, forced,
                   embedded, searchResults, chunks, calls>>
    /\ UNCHANGED chunkVars
    /\ UNCHANGED ingestVars
    /\ UNCHANGED streamVars
    /\ UNCHANGED poolVars

\* No chunk_text call is part of the run.
NoChunking ==
    /\ service = [chunk_size |-> 0, chunk_overlap |-> 0]
    /\ text = <<>>
    /\ source_file = ""
    /\ paragraphs = <<>>
    /\ next_paragraph = 0
    /\ current_chunk = <<>>
    /\ current_position = 0
    /\ chunks_out = <<>>

\* _store_in_qdrant: batch_size
UpsertBatchSize == 50

\* The sources on disk; any other path does not exist.
SourcePaths == {"/book", "/note"}

\* How many chunks _process_files makes of a source as it is first found:
\* more than one batch of "/book", one chunk of "/note".
ChunksOf(book_path) == IF book_path = "/book" THEN UpsertBatchSize + 1 ELSE 1

\* No ingestion is part of the run, the collection is empty and the sources
\* are as first found.
NoIngestion ==
    /\ disk = [book_path \in SourcePaths |-> ChunksOf(book_path)]
    /\ index = {}
    /\ entry = ""
    /\ ingest_request = [book_path |-> "", book_id |-> "None"]
    /\ orchestrator = [book_path |-> "", book_id |-> "", chunks |-> 0]
    /\ batch_start = 0
    /\ retrying = FALSE
    /\ upserts = <<>>
    /\ deletes = <<>>
    /\ ingested = "none"
    /\ response = [status |-> 0]
    /\ completed = <<>>
    /\ runs = 0

\* No chat_stream response is part of the run.
NoStream ==
    /\ stream = "off"
    /\ stream_pos = 0
    /\ events = <<>>

\* No caller of DatabaseConnection is part of the run.
NoPool ==
    /\ pool = 0
    /\ pools = {}
    /\ tasks = <<>>

\* The state before a handler runs.
Fresh ==
    /\ pc = "new"
    /\ modeArg = ""
    /\ detected = ""
    /\ path = "none"
    /\ forced = <<>>
    /\ embedded = <<>>
    /\ searchResults = <<>>
    /\ chunks = <<>>
    /\ calls = NoCalls
    /\ result = NoResult
    /\ raised = ""
    /\ outcome = "none"
    /\ nresults = 0

\* A validated ChatRequest is handed to the router and then to RAGAgent.chat.
Init ==
    /\ caller = "rag_agent"
    /\ NoChunking
    /\ NoIngestion
    /\ NoStream
    /\ NoPool
    /\ modeField \in Modes \cup {Absent}
    /\ request \in
          {ChatRequest(q, s, b, modeField, k) :
              <<q, s, b, k>> \in
                 Queries \X SelectedTexts \X BookIds \X MaxChunksValues}
    /\ Fresh

ExternalCalls ==
    \/ EmbedReturns
    \/ EmbedRaises
    \/ \E results \in SearchResults(SearchLimit) : SearchReturns(results)
    \/ SearchRaises
    \/ \E answer \in ModelAnswers : GenerateReturns(answer)
    \/ GenerateRaises

Next ==
    \/ Route
    \/ \E mode \in Modes : Chat(mode)
    \/ ExternalCalls

Spec == Init /\ [][Next]_vars

\* Every issued call returns or raises, and the handler runs on.
FairSpec ==
    /\ Init
    /\ [][Next]_vars
    /\ WF_vars(Route)
    /\ WF_vars(\E mode \in Modes : Chat(mode))
    /\ WF_vars(ExternalCalls)

-----------------------------------------------------------------------------
(* answer_with_selected_text called on its own *)

\* Passages of any length, the cap included.
LongTexts ==
    StringsOf({" ", "x"}, {1, SelectedTextCap, SelectedTextCap + 1}, MaxRuns)

SelectedTextInit ==
    /\ caller = "selected_text_agent"
    /\ NoChunking
    /\ NoIngestion
    /\ NoStream
    /\ NoPool
    /\ modeField = Absent
    /\ request \in
          [query : Queries, selected_text : LongTexts, book_id : BookIds,
           retrieve_additional : BOOLEAN]
    /\ Fresh

SelectedTextNext ==
    \/ AnswerWithSelectedText
    \/ EmbedReturns
    \/ EmbedRaises
    \/ \E results \in SearchResults(SearchLimit) : SearchReturns(results)
    \/ SearchRaises

SelectedTextSpec == SelectedTextInit /\ [][SelectedTextNext]_vars

-----------------------------------------------------------------------------
(* The served endpoint: chat_unified, which returns what rag_chat returns *)

\* str(e) of the exception an external call raises.
ErrorMessage(call) ==
    IF call = "search" THEN "Qdrant client not initialized" ELSE "Connection error."

\* Mutant: the chunks whose score is above the floor.
RelevantChunksAbove(cs) == SelectSeq(cs, LAMBDA c : c.score > RelevanceFloor)

\* rag_chat: the chunks whose score reaches the floor, in retrieval order.
RelevantChunks(cs) == SelectSeq(cs, LAMBDA c : c.score >= RelevanceFloor)

\* chat.py extract_citations
rag_extract_citations(cs) ==
    [i \in 1..Len(cs) |->
        [chunk_id |-> cs[i].chunk_id,
         text     |-> Snippet(cs[i].text),
         source   |-> cs[i].source_file,
         chapter  |-> Get(cs[i], "chapter", "None"),
         section  |-> Get(cs[i], "section", "None"),
         score    |-> Get(cs[i], "score", 0)]]

\* chat.py build_context
rag_build_context(cs) ==
    JoinStr([i \in 1..Len(cs) |->
                LET source == "[" \o Get(cs[i], "source_file", "unknown")
                    header == IF TruthyField(Get(cs[i], "chapter", "None"))
                              THEN source \o " - " \o cs[i].chapter
                              ELSE source
                IN  header \o "\n" \o Str(cs[i].text)],
            "\n\n")

\* retrieve_context: the formatting of the search results
RagFormatRetrieved(results) ==
    [i \in 1..Len(results) |->
        [chunk_id    |-> results[i].chunk_id,
         text        |-> results[i].text,
         source_file |-> results[i].source_file,
         chapter     |-> results[i].chapter,
         section     |-> results[i].section,
         score       |-> results[i].score]]

\* The ChatResponse of rag_chat's exception handler.
RagErrorResponse(call) ==
    [answer |-> "Sorry, I encountered an error: " \o ErrorMessage(call),
     citations |-> <<>>, mode |-> "rag", chunks_retrieved |-> 0]

\* chat_unified -> rag_chat -> retrieve_context, up to the first await.
RagChat ==
    /\ pc = "new"
    /\ caller = "rag_chat"
    /\ embedded' = request.query
    /\ calls' = [calls EXCEPT !.embed = @ + 1]
    /\ pc' = "embed"
    /\ UNCHANGED <<caller, modeField, request, modeArg, detected, path, forced,
                   searchResults, chunks, result, raised, outcome, nresults>>
    /\ UNCHANGED chunkVars
    /\ UNCHANGED ingestVars
    /\ UNCHANGED streamVars
    /\ UNCHANGED poolVars

\* An exception leaves the awaited call: rag_chat answers with the error text.
RagRaised(call) ==
    /\ raised' = call
    /\ result' = RagErrorResponse(call)
    /\ outcome' = "Error"
    /\ nresults' = nresults + 1
    /\ pc' = "done"
    /\ UNCHANGED <<caller, modeField, request, modeArg, detected, path, forced,
                   embedded, searchResults, chunks, calls>>

RagEmbedReturns ==
    /\ pc = "embed"
    /\ caller = "rag_chat"
    /\ calls' = [calls EXCEPT !.search = @ + 1]
    /\ pc' = "search"
    /\ UNCHANGED <<caller, modeField, request, modeArg, detected, path, forced,
                   embedded, searchResults, chunks, result, raised, outcome,
                   nresults>>
    /\ UNCHANGED chunkVars
    /\ UNCHANGED ingestVars
    /\ UNCHANGED streamVars
    /\ UNCHANGED poolVars

RagEmbedRaises ==
    /\ pc = "embed"
    /\ caller = "rag_chat"
    /\ RagRaised("embed")
    /\ UNCHANGED chunkVars
    /\ UNCHANGED ingestVars
    /\ UNCHANGED streamVars
    /\ UNCHANGED poolVars

\* The search returns: the chunks are filtered by score, and the model is
\* asked with the context of the relevant ones ("rag") or, when there is none,
\* with the bare question ("simple").
RagSearchReturns(results) ==
    /\ pc = "search"
    /\ caller = "rag_chat"
    /\ searchResults' = results
    /\ chunks' = RagFormatRetrieved(results)
    /\ path' = IF RelevantChunks(chunks') # <<>> THEN "rag" ELSE "simple"
    /\ calls' = [calls EXCEPT !.chat = @ + 1]
    /\ pc' = "generate"
    /\ UNCHANGED <<caller, modeField, request, modeArg, detected, forced,
                   embedded, result, raised, outcome, nresults>>
    /\ UNCHANGED chunkVars
    /\ UNCHANGED ingestVars
    /\ UNCHANGED streamVars
    /\ UNCHANGED poolVars

RagSearchRaises ==
    /\ pc = "search"
    /\ caller = "rag_chat"
    /\ RagRaised("search")
    /\ UNCHANGED chunkVars
    /\ UNCHANGED ingestVars
    /\ UNCHANGED streamVars
    /\ UNCHANGED poolVars

\* The model answers: the ChatResponse of the branch taken.
RagGenerateReturns(answer) ==
    /\ pc = "generate"
    /\ caller = "rag_chat"
    /\ IF path = "rag"
       THEN /\ result' = ChatResult(answer,
                                    rag_extract_citations(RelevantChunks(chunks)),
                                    "rag", Len(RelevantChunks(chunks)))
            /\ outcome' = "Answered"
       ELSE /\ result' = ChatResult(answer, <<>>, "simple", 0)
            /\ outcome' = "Ungrounded"
    /\ nresults' = nresults + 1
    /\ pc' = "done"
    /\ UNCHANGED <<caller, modeField, request, modeArg, detected, path, forced,
                   embedded, searchResults, chunks, calls, raised>>
    /\ UNCHANGED chunkVars
    /\ UNCHANGED ingestVars
    /\ UNCHANGED streamVars
    /\ UNCHANGED poolVars

RagGenerateRaises ==
    /\ pc = "generate"
    /\ caller = "rag_chat"
    /\ RagRaised("chat")
    /\ UNCHANGED chunkVars
    /\ UNCHANGED ingestVars
    /\ UNCHANGED streamVars
    /\ UNCHANGED poolVars

RagInit ==
    /\ caller = "rag_chat"
    /\ NoChunking
    /\ NoIngestion
    /\ NoStream
    /\ NoPool
    /\ modeField \in Modes \cup {Absent}
    /\ request \in
          {ChatRequest(q, s, b, modeField, k) :
              <<q, s, b, k>> \in
                 Queries \X {None, <<Run("x", 1)>>} \X BookIds \X MaxChunksValues}
    /\ Fresh

RagNext ==
    \/ RagChat
    \/ RagEmbedReturns
    \/ RagEmbedRaises
    \/ \E results \in SearchResults(request.max_chunks) : RagSearchReturns(results)
    \/ RagSearchRaises
    \/ \E answer \in ModelAnswers : RagGenerateReturns(answer)
    \/ RagGenerateRaises

RagSpec == RagInit /\ [][RagNext]_vars

-----------------------------------------------------------------------------
(* chat_stream: the response of rag_chat as server-sent events *)

\* event_generator: chunk_size
StreamChunkSize == 24

\* Mutant: slices one character longer than the step of the loop.
DeltaOverlapping(answer, i) ==
    SubSeq(answer, i + 1, Min(i + StreamChunkSize + 1, Len(answer)))

\* answer[i : i + chunk_size]
Delta(answer, i) ==
    SubSeq(answer, i + 1, Min(i + StreamChunkSize, Len(answer)))

\* {"type": "delta", "delta": delta}
DeltaEvent(delta) == [type |-> "delta", delta |-> delta]

\* final_payload
FinalEvent(chat_response) ==
    [type |-> "final",
     citations |-> chat_response.citations,
     mode |-> chat_response.mode,
     chunks_retrieved |-> chat_response.chunks_retrieved]

\* What the generative model may answer to a streamed request: also the
\* empty text, one character, exactly one slice and one slice and a character.
StreamAnswers ==
    ModelAnswers \cup {"", "x", Repeat("x", StreamChunkSize),
                       Repeat("x", StreamChunkSize + 1)}

\* The generator is resumed, after rag_chat returned or after
\* asyncio.sleep(0), with a part of the answer left: it yields the next delta.
StreamDelta ==
    /\ stream \in {"rag_chat", "sleep"}
    /\ pc = "done"
    /\ stream_pos < Len(result.answer)
    /\ events' = Append(events, DeltaEvent(Delta(result.answer, stream_pos)))
    /\ stream_pos' = stream_pos + StreamChunkSize
    /\ stream' = "sleep"
    /\ UNCHANGED pc
    /\ UNCHANGED requestVars
    /\ UNCHANGED chunkVars
    /\ UNCHANGED ingestVars
    /\ UNCHANGED poolVars

\* The loop is over: the generator yields the final event and ends.
StreamFinal ==
    /\ stream \in {"rag_chat", "sleep"}
    /\ pc = "done"
    /\ stream_pos >= Len(result.answer)
    /\ events' = Append(events, FinalEvent(result))
    /\ stream' = "closed"
    /\ UNCHANGED <<pc, stream_pos>>
    /\ UNCHANGED requestVars
    /\ UNCHANGED chunkVars
    /\ UNCHANGED ingestVars
    /\ UNCHANGED poolVars

\* POST /api/v1/chat/stream: the generator awaits rag_chat(request).
StreamInit ==
    /\ caller = "rag_chat"
    /\ NoChunking
    /\ NoIngestion
    /\ NoPool
    /\ stream = "rag_chat"
    /\ stream_pos = 0
    /\ events = <<>>
    /\ modeField \in Modes \cup {Absent}
    /\ request \in
          {ChatRequest(q, s, b, modeField, k) :
              <<q, s, b, k>> \in
                 Queries \X {None, <<Run("x", 1)>>} \X BookIds \X MaxChunksValues}
    /\ Fresh

StreamNext ==
    \/ RagChat
    \/ RagEmbedReturns
    \/ RagEmbedRaises
    \/ \E results \in SearchResults(request.max_chunks) : RagSearchReturns(results)
    \/ RagSearchRaises
    \/ \E answer \in StreamAnswers : RagGenerateReturns(answer)
    \/ RagGenerateRaises
    \/ StreamDelta
    \/ StreamFinal

StreamSpec == StreamInit /\ [][StreamNext]_vars

\* The event loop resumes the generator, and every awaited call returns or
\* raises.
FairStreamSpec == StreamSpec /\ WF_vars(StreamNext)

-----------------------------------------------------------------------------
(* The context assemblers and the citation extractors, called on their own *)

\* Units as the helpers may be handed them: the points of the index, a unit
\* without chapter, section and score, and one without source_file.
Units ==
    Points \cup
    {[chunk_id |-> "c4", text |-> <<Run("y", 1)>>, source_file |-> "c.md"],
     [chunk_id |-> "c5", text |-> <<Run("y", 2)>>, chapter |-> "Ch2",
      score |-> 50]}

ContextBuilders == {"_build_context", "build_context"}

CitationExtractors == {"_extract_citations", "extract_citations"}

\* _build_context (rag_agent.py) or build_context (chat.py) is called.
BuildContext ==
    /\ pc = "new"
    /\ caller \in ContextBuilders
    /\ result' = [context |-> IF caller = "_build_context"
                              THEN build_context(chunks)
                              ELSE rag_build_context(chunks)]
    /\ outcome' = "Returned"
    /\ nresults' = nresults + 1
    /\ pc' = "done"
    /\ UNCHANGED <<caller, modeField, request, modeArg, detected, path, forced,
                   embedded, searchResults, chunks, calls, raised>>
    /\ UNCHANGED chunkVars
    /\ UNCHANGED ingestVars
    /\ UNCHANGED streamVars
    /\ UNCHANGED poolVars

\* _extract_citations (rag_agent.py) or extract_citations (chat.py) is
\* called: chunk["source_file"] raises KeyError for a unit without the key.
ExtractCitations ==
    /\ pc = "new"
    /\ caller \in CitationExtractors
    /\ IF \A i \in 1..Len(chunks) : "source_file" \in DOMAIN chunks[i]
       THEN /\ result' = [citations |-> IF caller = "_extract_citations"
                                        THEN extract_citations(chunks)
                                        ELSE rag_extract_citations(chunks)]
            /\ outcome' = "Returned"
            /\ nresults' = nresults + 1
            /\ UNCHANGED raised
       ELSE /\ raised' = "KeyError"
            /\ outcome' = "Raised"
            /\ UNCHANGED <<result, nresults>>
    /\ pc' = "done"
    /\ UNCHANGED <<caller, modeField, request, modeArg, detected, path, forced,
                   embedded, searchResults, chunks, calls>>
    /\ UNCHANGED chunkVars
    /\ UNCHANGED ingestVars
    /\ UNCHANGED streamVars
    /\ UNCHANGED poolVars

HelperInit ==
    /\ caller \in ContextBuilders \cup CitationExtractors
    /\ NoChunking
    /\ NoIngestion
    /\ NoStream
    /\ NoPool
    /\ modeField = Absent
    /\ request = [query |-> <<>>]
    /\ pc = "new"
    /\ modeArg = ""
    /\ detected = ""
    /\ path = "none"
    /\ forced = <<>>
    /\ embedded = <<>>
    /\ searchResults = <<>>
    /\ chunks \in SeqsUpTo(Units, MaxResults)
    /\ calls = NoCalls
    /\ result = NoResult
    /\ raised = ""
    /\ outcome = "none"
    /\ nresults = 0

HelperNext ==
    \/ BuildContext
    \/ ExtractCitations

HelperSpec == HelperInit /\ [][HelperNext]_vars

-----------------------------------------------------------------------------
(* ChunkingService *)

\* Most blank-line separated blocks of a text.
MaxParagraphs == 3

\* settings.chunk_size
DefaultChunkSize == 500

\* settings.chunk_overlap
DefaultChunkOverlap == 50

\* ChunkingService.__init__: "chunk_size or settings.chunk_size"; 0 stands for
\* None as well, both being falsy.
ChunkingService(chunk_size, chunk_overlap) ==
    [chunk_size    |-> IF chunk_size = 0 THEN DefaultChunkSize ELSE chunk_size,
     chunk_overlap |-> IF chunk_overlap = 0 THEN DefaultChunkOverlap
                       ELSE chunk_overlap]

\* re.split(r'\n\n+', s): s is cut at every run of two or more newlines.
RECURSIVE SplitBlocks(_, _)
SplitBlocks(s, piece) ==
    IF s = <<>> THEN <<piece>>
    ELSE IF Head(s).c = "\n" /\ Head(s).n >= 2
         THEN <<piece>> \o SplitBlocks(Tail(s), <<>>)
         ELSE SplitBlocks(Tail(s), Append(piece, Head(s)))

\* ChunkingService._split_into_paragraphs
split_into_paragraphs(s) ==
    LET pieces == SplitBlocks(s, <<>>)
        stripped == [i \in 1..Len(pieces) |-> Strip(pieces[i])]
    IN  SelectSeq(stripped, LAMBDA q : q # <<>>)

\* s.split(): the maximal pieces of s without whitespace.
RECURSIVE SplitWords(_, _)
SplitWords(s, word) ==
    IF s = <<>> THEN (IF word = <<>> THEN <<>> ELSE <<word>>)
    ELSE IF Head(s).c \in Whitespace
         THEN (IF word = <<>> THEN <<>> ELSE <<word>>)
              \o SplitWords(Tail(s), <<>>)
         ELSE SplitWords(Tail(s), Append(word, Head(s)))

\* sep.join(pieces)
RECURSIVE Join(_, _)
Join(pieces, sep) ==
    IF pieces = <<>> THEN <<>>
    ELSE IF Len(pieces) = 1 THEN pieces[1]
    ELSE Concat(Concat(pieces[1], sep), Join(Tail(pieces), sep))

\* Mutant: the overlap is taken from the start of the chunk, words[:overlap].
get_overlap_text_leading(s, chunk_overlap) ==
    LET words == SplitWords(s, <<>>)
        n == Len(words)
    IN  Join(SubSeq(words, 1, IF n > chunk_overlap THEN chunk_overlap ELSE n),
             <<Run(" ", 1)>>)

\* ChunkingService._get_overlap_text
get_overlap_text(s, chunk_overlap) ==
    LET words == SplitWords(s, <<>>)
        n == Len(words)
        overlap_words ==
            IF chunk_overlap > 0
            THEN SubSeq(words, IF n > chunk_overlap THEN n - chunk_overlap + 1 ELSE 1, n)
            ELSE <<>>
    IN  Join(overlap_words, <<Run(" ", 1)>>)

\* ChunkingService._estimate_tokens
estimate_tokens(s) == StrLen(s) \div 4

\* The lines of s: s cut at its newlines (empty lines between two newlines of
\* a run are left out, no pattern below starting or ending in one).
RECURSIVE SplitLines(_, _)
SplitLines(s, line) ==
    IF s = <<>> THEN <<line>>
    ELSE IF Head(s).c = "\n"
         THEN <<line>> \o SplitLines(Tail(s), <<>>)
         ELSE SplitLines(Tail(s), Append(line, Head(s)))

\* re.search(r'^#{hashes}\s+(.+)$', text, re.MULTILINE) over the lines of the
\* text, and match.group(1).strip(): the first line that starts with exactly
\* that many '#' and then whitespace.  \s+ runs over newlines too, so that
\* after a line holding nothing but the hashes the group is the next line
\* with ink; where the whitespace reaches the end of the text the pattern
\* backtracks to a group of blanks (""), or does not match at that line.
RECURSIVE heading_search(_, _)
heading_search(lines, hashes) ==
    IF lines = <<>> THEN None
    ELSE LET line == Head(lines)
             inked == SelectSeq(Tail(lines), LAMBDA l : LStrip(l) # <<>>)
             blank == SelectSeq(Tail(lines), LAMBDA l : l # <<>>)
         IN  IF /\ line # <<>>
                /\ Head(line) = Run("#", hashes)
                /\ (Tail(line) = <<>> \/ Tail(line)[1].c \in Whitespace)
             THEN IF LStrip(Tail(line)) # <<>> THEN Strip(Tail(line))
                  ELSE IF inked # <<>> THEN Strip(Head(inked))
                  ELSE IF StrLen(Tail(line)) >= 2 \/ blank # <<>> THEN <<>>
                  ELSE heading_search(Tail(lines), hashes)
             ELSE heading_search(Tail(lines), hashes)

\* ChunkingService._extract_chapter
extract_chapter(s) == heading_search(SplitLines(s, <<>>), 1)

\* ChunkingService._extract_section
extract_section(s) == heading_search(SplitLines(s, <<>>), 2)

\* Mutant: every Chunk is given position 0.
ChunkUnnumbered(buffer, source, position) ==
    [text        |-> Strip(buffer),
     source_file |-> source,
     chapter     |-> extract_chapter(buffer),
     section     |-> extract_section(buffer),
     position    |-> 0,
     token_count |-> estimate_tokens(buffer)]

\* The Chunk that chunk_text appends for a buffer.
Chunk(buffer, source, position) ==
    [text        |-> Strip(buffer),
     source_file |-> source,
     chapter     |-> extract_chapter(buffer),
     section     |-> extract_section(buffer),
     position    |-> position,
     token_count |-> estimate_tokens(buffer)]

ParagraphBreak == <<Run("\n", 2)>>

\* chunk_text up to its loop: the text is split into paragraphs.
ChunkText ==
    /\ pc = "new"
    /\ caller = "chunking_service"
    /\ paragraphs' = split_into_paragraphs(text)
    /\ next_paragraph' = 1
    /\ current_chunk' = <<>>
    /\ current_position' = 0
    /\ chunks_out' = <<>>
    /\ pc' = "loop"
    /\ UNCHANGED <<service, text, source_file>>
    /\ UNCHANGED requestVars
    /\ UNCHANGED ingestVars
    /\ UNCHANGED streamVars
    /\ UNCHANGED poolVars

\* One pass of the loop of chunk_text over the paragraphs.
ChunkParagraph ==
    /\ pc = "loop"
    /\ next_paragraph <= Len(paragraphs)
    /\ LET paragraph == paragraphs[next_paragraph]
           exceeds == StrLen(current_chunk) + StrLen(paragraph) > service.chunk_size
           saves == exceeds /\ current_chunk # <<>>
       IN  /\ chunks_out' =
                 IF saves
                 THEN Append(chunks_out,
                             Chunk(current_chunk, source_file, current_position))
                 ELSE chunks_out
           /\ current_position' =
                 IF saves THEN current_position + 1 ELSE current_position
           /\ current_chunk' =
                 IF exceeds
                 THEN IF service.chunk_overlap > 0 /\ Len(chunks_out') > 0
                      THEN Concat(Concat(get_overlap_text(current_chunk,
                                                          service.chunk_overlap),
                                         ParagraphBreak),
                                  paragraph)
                      ELSE paragraph
                 ELSE IF current_chunk # <<>>
                      THEN Concat(Concat(current_chunk, ParagraphBreak), paragraph)
                      ELSE paragraph
    /\ next_paragraph' = next_paragraph + 1
    /\ UNCHANGED <<pc, service, text, source_file, paragraphs>>
    /\ UNCHANGED requestVars
    /\ UNCHANGED ingestVars
    /\ UNCHANGED streamVars
    /\ UNCHANGED poolVars

\* Mutant: the last buffer is appended only when it is within chunk_size.
ChunkLastWithinSize ==
    /\ pc = "loop"
    /\ next_paragraph > Len(paragraphs)
    /\ chunks_out' =
          IF Strip(current_chunk) # <<>> /\ StrLen(current_chunk) <= service.chunk_size
          THEN Append(chunks_out, Chunk(current_chunk, source_file, current_position))
          ELSE chunks_out
    /\ pc' = "done"
    /\ UNCHANGED <<service, text, source_file, paragraphs, next_paragraph,
                   current_chunk, current_position>>
    /\ UNCHANGED requestVars
    /\ UNCHANGED ingestVars
    /\ UNCHANGED streamVars
    /\ UNCHANGED poolVars

\* chunk_text after its loop: the last buffer is appended and the list returned.
ChunkLast ==
    /\ pc = "loop"
    /\ next_paragraph > Len(paragraphs)
    /\ chunks_out' =
          IF Strip(current_chunk) # <<>>
          THEN Append(chunks_out, Chunk(current_chunk, source_file, current_position))
          ELSE chunks_out
    /\ pc' = "done"
    /\ UNCHANGED <<service, text, source_file, paragraphs, next_paragraph,
                   current_chunk, current_position>>
    /\ UNCHANGED requestVars
    /\ UNCHANGED ingestVars
    /\ UNCHANGED streamVars
    /\ UNCHANGED poolVars

\* Blocks a text is made of: one word, two words, two lines, a paragraph of
\* the tests (twice their chunk size), a blank block, a block to be trimmed,
\* a level-1 and a level-2 heading.
Blocks ==
    {<<Run("x", 90)>>,
     <<Run("y", 90)>>,
     <<Run("x", 40), Run(" ", 1), Run("y", 40)>>,
     <<Run("x", 10), Run("\n", 1), Run("y", 10)>>,
     <<Run("x", 200)>>,
     <<Run(" ", 1)>>,
     <<Run(" ", 1), Run("y", 10)>>,
     <<Run("#", 1), Run(" ", 1), Run("T", 1)>>,
     <<Run("#", 2), Run(" ", 1), Run("S", 1)>>}

\* The texts of at most MaxParagraphs blocks, blank lines between them.
Texts == {Join(blocks, ParagraphBreak) : blocks \in SeqsUpTo(Blocks, MaxParagraphs)}

\* Constructor arguments of the service: left out (0), and those of the tests.
ChunkSizeArgs == {0, 100}

ChunkOverlapArgs == {0, 1, 20}

ChunkInit ==
    /\ pc = "new"
    /\ caller = "chunking_service"
    /\ modeField = Absent
    /\ request = [query |-> <<>>]
    /\ modeArg = ""
    /\ detected = ""
    /\ path = "none"
    /\ forced = <<>>
    /\ embedded = <<>>
    /\ searchResults = <<>>
    /\ chunks = <<>>
    /\ calls = NoCalls
    /\ result = NoResult
    /\ raised = ""
    /\ outcome = "none"
    /\ nresults = 0
    /\ service \in {ChunkingService(cs, co) :
                       <<cs, co>> \in ChunkSizeArgs \X ChunkOverlapArgs}
    /\ text \in Texts
    /\ source_file = "book.md"
    /\ paragraphs = <<>>
    /\ next_paragraph = 0
    /\ current_chunk = <<>>
    /\ current_position = 0
    /\ chunks_out = <<>>
    /\ NoIngestion
    /\ NoStream
    /\ NoPool

ChunkNext ==
    \/ ChunkText
    \/ ChunkParagraph
    \/ ChunkLast

ChunkSpec == ChunkInit /\ [][ChunkNext]_vars

-----------------------------------------------------------------------------
(* Ingestion: the ingest endpoint, the command line and the orchestrator *)

\* Most ingestion runs started one after the other.
MaxIngests == 2

\* _store_in_qdrant: asyncio.sleep(2) before the retry
RetryDelay == 2

BookPaths == SourcePaths \cup {"/fake"}

\* Path.exists()
PathExists(book_path) == book_path \in SourcePaths

\* BookIngestionOrchestrator._generate_book_id: the md5 of the absolute path.
generate_book_id(book_path) == "md5(" \o book_path \o ")"

\* IngestRequest.book_id as callers may give it: left out, the id the
\* orchestrator generates for "/book", an id of the caller's own.
BookIdArgs == {"None", generate_book_id("/book"), "my-book"}

IngestRequest(book_path, book_id) == [book_path |-> book_path, book_id |-> book_id]

\* f"{self.book_id}-{i}"
ChunkId(book_id, i) == book_id \o "-" \o ToString(i)

\* Mutant: a fresh random id for every point of every run.
PointIdRandom(book_id, i, run) ==
    "uuid4(" \o ToString(run) \o "," \o ChunkId(book_id, i) \o ")"

\* str(uuid.uuid5(uuid.NAMESPACE_DNS, f"{self.book_id}-{i}")): the same id for
\* the same book and index, in whatever run.
PointId(book_id, i, run) == "uuid5(" \o ChunkId(book_id, i) \o ")"

\* The PointStruct of the chunk of index i.
Point(book_id, i, source, run) ==
    [id          |-> PointId(book_id, i, run),
     book_id     |-> book_id,
     chunk_id    |-> ChunkId(book_id, i),
     source_file |-> source,
     position    |-> i]

\* points[i:i+batch_size]
Batch(orch, start, run) ==
    {Point(orch.book_id, i, orch.book_path, run) :
        i \in start..(Min(start + UpsertBatchSize, orch.chunks) - 1)}

\* client.upsert: a point replaces the point of the same id.
Upsert(collection, points) ==
    {p \in collection : \A q \in points : q.id # p.id} \cup points

\* client.delete with the book_id filter
DeleteByBook(collection, book_id) == {p \in collection : p.book_id # book_id}

\* The orchestrator after ingest() has generated the book id and processed
\* the files as they stand: self.book_id is the generated id whatever it was
\* set to.
Orchestrator(book_path) ==
    [book_path |-> book_path,
     book_id   |-> generate_book_id(book_path),
     chunks    |-> disk[book_path]]

NoOrchestrator == [book_path |-> "", book_id |-> "", chunks |-> 0]

NoResponse == [status |-> 0]

\* The dictionary ingest() returns.
IngestResult(orch) ==
    [book_id |-> orch.book_id, chunks_created |-> orch.chunks,
     status |-> "success", processing_time_seconds |-> 1]

\* The fields IngestResponse requires.
IngestResponseFields ==
    {"book_id", "chunks_created", "status", "message", "processing_time_seconds"}

\* The IngestResponse built from the keys of the result: a ValidationError
\* when a required field is missing, which the endpoint's handler turns into
\* status 500.
IngestResponse(res) ==
    IF IngestResponseFields \subseteq DOMAIN res
    THEN [status |-> 200, book_id |-> res.book_id,
          chunks_created |-> res.chunks_created]
    ELSE [status |-> 500]

\* What the caller of ingest() does with an exception: ingest_book answers
\* 500, main lets it propagate.
IngestFailed ==
    /\ response' = IF entry = "ingest_book" THEN [status |-> 500] ELSE NoResponse
    /\ pc' = "idle"

\* POST /api/v1/ingest up to its first await.  The HTTPException the handler
\* raises for a missing path is caught by its own "except Exception".
IngestBook(req) ==
    /\ pc = "idle"
    /\ runs < MaxIngests
    /\ runs' = runs + 1
    /\ entry' = "ingest_book"
    /\ ingest_request' = req
    /\ upserts' = <<>>
    /\ deletes' = <<>>
    /\ ingested' = "none"
    /\ orchestrator' = NoOrchestrator
    /\ IF ~PathExists(req.book_path)
       THEN /\ response' = [status |-> 500]
            /\ pc' = "idle"
       ELSE /\ response' = NoResponse
            /\ pc' = IF req.book_id # "None" THEN "delete_by_book" ELSE "embed"
    /\ UNCHANGED <<index, completed, batch_start, retrying>>
    /\ UNCHANGED requestVars
    /\ UNCHANGED chunkVars
    /\ UNCHANGED disk
    /\ UNCHANGED streamVars
    /\ UNCHANGED poolVars

\* ingest_book.py main(), up to the first await of ingest().
Main(book_path) ==
    /\ pc = "idle"
    /\ runs < MaxIngests
    /\ runs' = runs + 1
    /\ entry' = "main"
    /\ ingest_request' = IngestRequest(book_path, "None")
    /\ upserts' = <<>>
    /\ deletes' = <<>>
    /\ ingested' = "none"
    /\ orchestrator' = NoOrchestrator
    /\ response' = NoResponse
    /\ pc' = IF PathExists(book_path) THEN "embed" ELSE "idle"
    /\ UNCHANGED <<index, completed, batch_start, retrying>>
    /\ UNCHANGED requestVars
    /\ UNCHANGED chunkVars
    /\ UNCHANGED disk
    /\ UNCHANGED streamVars
    /\ UNCHANGED poolVars

\* qdrant_service.delete_by_book(request.book_id) returns.
DeleteByBookReturns ==
    /\ pc = "delete_by_book"
    /\ index' = DeleteByBook(index, ingest_request.book_id)
    /\ deletes' = Append(deletes, [store |-> "qdrant",
                                   book_id |-> ingest_request.book_id])
    /\ pc' = "delete_book_chunks"
    /\ UNCHANGED <<entry, ingest_request, orchestrator, batch_start, retrying,
                   upserts, ingested, response, completed, runs>>
    /\ UNCHANGED requestVars
    /\ UNCHANGED chunkVars
    /\ UNCHANGED disk
    /\ UNCHANGED streamVars
    /\ UNCHANGED poolVars

DeleteByBookRaises ==
    /\ pc = "delete_by_book"
    /\ IngestFailed
    /\ UNCHANGED <<index, entry, ingest_request, orchestrator, batch_start,
                   retrying, upserts, deletes, ingested, completed, runs>>
    /\ UNCHANGED requestVars
    /\ UNCHANGED chunkVars
    /\ UNCHANGED disk
    /\ UNCHANGED streamVars
    /\ UNCHANGED poolVars

\* neon_service.delete_book_chunks(request.book_id) returns.
DeleteBookChunksReturns ==
    /\ pc = "delete_book_chunks"
    /\ deletes' = Append(deletes, [store |-> "neon",
                                   book_id |-> ingest_request.book_id])
    /\ pc' = "embed"
    /\ UNCHANGED <<index, entry, ingest_request, orchestrator, batch_start,
                   retrying, upserts, ingested, response, completed, runs>>
    /\ UNCHANGED requestVars
    /\ UNCHANGED chunkVars
    /\ UNCHANGED disk
    /\ UNCHANGED streamVars
    /\ UNCHANGED poolVars

DeleteBookChunksRaises ==
    /\ pc = "delete_book_chunks"
    /\ IngestFailed
    /\ UNCHANGED <<index, entry, ingest_request, orchestrator, batch_start,
                   retrying, upserts, deletes, ingested, completed, runs>>
    /\ UNCHANGED requestVars
    /\ UNCHANGED chunkVars
    /\ UNCHANGED disk
    /\ UNCHANGED streamVars
    /\ UNCHANGED poolVars

\* ingest() up to the first upsert: the files are discovered, the book id
\* generated, the chunks made and, here, their embeddings returned.
EmbedBatchReturns ==
    /\ pc = "embed"
    /\ orchestrator' = Orchestrator(ingest_request.book_path)
    /\ batch_start' = 0
    /\ retrying' = FALSE
    /\ pc' = "upsert"
    /\ UNCHANGED <<index, entry, ingest_request, upserts, deletes, ingested,
                   response, completed, runs>>
    /\ UNCHANGED requestVars
    /\ UNCHANGED chunkVars
    /\ UNCHANGED disk
    /\ UNCHANGED streamVars
    /\ UNCHANGED poolVars

\* cohere_service.embed_batch raises: ingest() raises.
EmbedBatchRaises ==
    /\ pc = "embed"
    /\ orchestrator' = Orchestrator(ingest_request.book_path)
    /\ ingested' = "raised"
    /\ IngestFailed
    /\ UNCHANGED <<index, entry, ingest_request, batch_start, retrying, upserts,
                   deletes, completed, runs>>
    /\ UNCHANGED requestVars
    /\ UNCHANGED chunkVars
    /\ UNCHANGED disk
    /\ UNCHANGED streamVars
    /\ UNCHANGED poolVars

\* The attempt of the batch at batch_start that is being awaited.
Attempt(ok) ==
    [batch |-> batch_start, ok |-> ok,
     delay |-> IF retrying THEN RetryDelay ELSE 0]

\* qdrant_service.upsert_chunks(batch) returns, at the first attempt or at
\* the retry: the loop goes to the next batch, and after the last one
\* ingest() returns its dictionary to its caller.
UpsertReturns ==
    /\ pc = "upsert"
    /\ index' = Upsert(index, Batch(orchestrator, batch_start, runs))
    /\ upserts' = Append(upserts, Attempt(TRUE))
    /\ retrying' = FALSE
    /\ IF batch_start + UpsertBatchSize < orchestrator.chunks
       THEN /\ batch_start' = batch_start + UpsertBatchSize
            /\ UNCHANGED <<pc, ingested, response, completed>>
       ELSE /\ ingested' = "returned"
            /\ completed' = Append(completed, ingest_request)
            /\ response' = IF entry = "ingest_book"
                           THEN IngestResponse(IngestResult(orchestrator))
                           ELSE NoResponse
            /\ pc' = "idle"
            /\ UNCHANGED batch_start
    /\ UNCHANGED <<entry, ingest_request, orchestrator, deletes, runs>>
    /\ UNCHANGED requestVars
    /\ UNCHANGED chunkVars
    /\ UNCHANGED disk
    /\ UNCHANGED streamVars
    /\ UNCHANGED poolVars

\* Mutant: a batch that failed twice is given up and the loop goes on.
UpsertRaisesSkipsBatch ==
    /\ pc = "upsert"
    /\ upserts' = Append(upserts, Attempt(FALSE))
    /\ IF ~retrying
       THEN /\ retrying' = TRUE
            /\ UNCHANGED <<pc, batch_start, ingested, response>>
       ELSE /\ retrying' = FALSE
            /\ IF batch_start + UpsertBatchSize < orchestrator.chunks
               THEN /\ batch_start' = batch_start + UpsertBatchSize
                    /\ UNCHANGED <<pc, ingested, response>>
               ELSE /\ ingested' = "raised"
                    /\ IngestFailed
                    /\ UNCHANGED batch_start
    /\ UNCHANGED <<index, entry, ingest_request, orchestrator, deletes,
                   completed, runs>>
    /\ UNCHANGED requestVars
    /\ UNCHANGED chunkVars
    /\ UNCHANGED disk
    /\ UNCHANGED streamVars
    /\ UNCHANGED poolVars

\* qdrant_service.upsert_chunks(batch) raises: after the first attempt the
\* handler sleeps and calls it once more; after the retry the exception
\* leaves _store_in_qdrant and ingest().
UpsertRaises ==
    /\ pc = "upsert"
    /\ upserts' = Append(upserts, Attempt(FALSE))
    /\ IF ~retrying
       THEN /\ retrying' = TRUE
            /\ UNCHANGED <<pc, ingested, response>>
       ELSE /\ ingested' = "raised"
            /\ IngestFailed
            /\ UNCHANGED retrying
    /\ UNCHANGED <<index, entry, ingest_request, orchestrator, batch_start,
                   deletes, completed, runs>>
    /\ UNCHANGED requestVars
    /\ UNCHANGED chunkVars
    /\ UNCHANGED disk
    /\ UNCHANGED streamVars
    /\ UNCHANGED poolVars

IngestInit ==
    /\ pc = "idle"
    /\ caller = "ingest"
    /\ modeField = Absent
    /\ request = [query |-> <<>>]
    /\ modeArg = ""
    /\ detected = ""
    /\ path = "none"
    /\ forced = <<>>
    /\ embedded = <<>>
    /\ searchResults = <<>>
    /\ chunks = <<>>
    /\ calls = NoCalls
    /\ result = NoResult
    /\ raised = ""
    /\ outcome = "none"
    /\ nresults = 0
    /\ NoChunking
    /\ NoIngestion
    /\ NoStream
    /\ NoPool

IngestNext ==
    \/ \E book_path \in BookPaths, book_id \in BookIdArgs :
          IngestBook(IngestRequest(book_path, book_id))
    \/ \E book_path \in BookPaths : Main(book_path)
    \/ DeleteByBookReturns
    \/ DeleteByBookRaises
    \/ DeleteBookChunksReturns
    \/ DeleteBookChunksRaises
    \/ EmbedBatchReturns
    \/ EmbedBatchRaises
    \/ UpsertReturns
    \/ UpsertRaises

IngestSpec == IngestInit /\ [][IngestNext]_vars

\* How many chunks a source may make after it was edited.
ChunkCounts == {1, 2, UpsertBatchSize + 1}

\* A source on disk is edited between two runs: _discover_files and
\* _process_files read it anew in every run.
EditSource(book_path, n) ==
    /\ pc = "idle"
    /\ caller = "ingest"
    /\ disk[book_path] # n
    /\ disk' = [disk EXCEPT ![book_path] = n]
    /\ UNCHANGED <<pc, index, entry, ingest_request, orchestrator, batch_start,
                   retrying, upserts, deletes, ingested, response, completed,
                   runs>>
    /\ UNCHANGED requestVars
    /\ UNCHANGED chunkVars
    /\ UNCHANGED streamVars
    /\ UNCHANGED poolVars

ReingestNext ==
    \/ IngestNext
    \/ \E book_path \in SourcePaths, n \in ChunkCounts : EditSource(book_path, n)

\* Ingestion runs of sources that change between the runs.
ReingestSpec == IngestInit /\ [][ReingestNext]_vars

-----------------------------------------------------------------------------
(* DatabaseConnection: the class-level pool and its concurrent callers *)

\* Most calls of DatabaseConnection that are in progress together.
MaxTasks == 2

\* The classmethods a caller may enter.
PoolOps == {"create_pool", "get_connection", "execute"}

Tasks == 1..MaxTasks

\* A call before its first step.
NewTask(op) == [op |-> op, pc |-> "start", saw_none |-> FALSE, uses |-> 0]

\* The call goes on with the pool that cls._pool holds: create_pool returns
\* it, get_connection and execute await cls._pool.acquire().
WithPool(task, p) ==
    [task EXCEPT !.uses = p,
                 !.pc = IF task.op = "create_pool" THEN "done" ELSE "acquire"]

\* A call runs up to its first await: "if cls._pool is None" is evaluated,
\* and with no pool asyncpg.create_pool is awaited.
CallPool(t) ==
    /\ caller = "database"
    /\ tasks[t].pc = "start"
    /\ tasks' = [tasks EXCEPT ![t] =
                    IF pool = 0
                    THEN [@ EXCEPT !.pc = "create_pool", !.saw_none = TRUE]
                    ELSE WithPool(@, pool)]
    /\ UNCHANGED <<pc, pool, pools>>
    /\ UNCHANGED requestVars
    /\ UNCHANGED chunkVars
    /\ UNCHANGED ingestVars
    /\ UNCHANGED streamVars

\* asyncpg.create_pool returns a new pool, which is assigned to cls._pool
\* whatever cls._pool holds by now; the call goes on without suspending.
CreatePoolReturns(t) ==
    /\ tasks[t].pc = "create_pool"
    /\ LET new == Cardinality(pools) + 1
       IN  /\ pools' = pools \cup {new}
           /\ pool' = new
           /\ tasks' = [tasks EXCEPT ![t] = WithPool(@, new)]
    /\ UNCHANGED pc
    /\ UNCHANGED requestVars
    /\ UNCHANGED chunkVars
    /\ UNCHANGED ingestVars
    /\ UNCHANGED streamVars

\* asyncpg.create_pool raises: the exception leaves the call.
CreatePoolRaises(t) ==
    /\ tasks[t].pc = "create_pool"
    /\ tasks' = [tasks EXCEPT ![t].pc = "raised"]
    /\ UNCHANGED <<pc, pool, pools>>
    /\ UNCHANGED requestVars
    /\ UNCHANGED chunkVars
    /\ UNCHANGED ingestVars
    /\ UNCHANGED streamVars

\* pool.acquire() returns a connection: get_connection yields it, execute
\* awaits its query on it.
AcquireReturns(t) ==
    /\ tasks[t].pc = "acquire"
    /\ tasks' = [tasks EXCEPT ![t].pc =
                    IF tasks[t].op = "execute" THEN "query" ELSE "done"]
    /\ UNCHANGED <<pc, pool, pools>>
    /\ UNCHANGED requestVars
    /\ UNCHANGED chunkVars
    /\ UNCHANGED ingestVars
    /\ UNCHANGED streamVars

\* The query of execute returns and the connection is released.
QueryReturns(t) ==
    /\ tasks[t].pc = "query"
    /\ tasks' = [tasks EXCEPT ![t].pc = "done"]
    /\ UNCHANGED <<pc, pool, pools>>
    /\ UNCHANGED requestVars
    /\ UNCHANGED chunkVars
    /\ UNCHANGED ingestVars
    /\ UNCHANGED streamVars

\* No pool exists and the calls have not begun.
PoolInit ==
    /\ pc = "idle"
    /\ caller = "database"
    /\ modeField = Absent
    /\ request = [query |-> <<>>]
    /\ modeArg = ""
    /\ detected = ""
    /\ path = "none"
    /\ forced = <<>>
    /\ embedded = <<>>
    /\ searchResults = <<>>
    /\ chunks = <<>>
    /\ calls = NoCalls
    /\ result = NoResult
    /\ raised = ""
    /\ outcome = "none"
    /\ nresults = 0
    /\ NoChunking
    /\ NoIngestion
    /\ NoStream
    /\ pool = 0
    /\ pools = {}
    /\ tasks \in [Tasks -> {NewTask(op) : op \in PoolOps}]

PoolNext ==
    \E t \in Tasks :
        \/ CallPool(t)
        \/ CreatePoolReturns(t)
        \/ CreatePoolRaises(t)
        \/ AcquireReturns(t)
        \/ QueryReturns(t)

PoolSpec == PoolInit /\ [][PoolNext]_vars

-----------------------------------------------------------------------------
(* Claims about RAGAgent.chat *)

\* C1: in RAGAgent.chat, for either mode, when the embedding, the search or
\* the generation call raises, chat does not raise: it returns the fixed
\* FALLBACK_RESPONSE with no citations and chunks_retrieved = 0.
C1_ExceptionGivesFallback ==
    (caller = "rag_agent" /\ raised # "") =>
        /\ pc = "done"
        /\ outcome = "Refused"
        /\ nresults = 1
        /\ result.answer = FALLBACK_RESPONSE
        /\ result.citations = <<>>
        /\ result.chunks_retrieved = 0

\* The generation call raises on the pinned-passage path after units were found.
C1_Witness ==
    /\ caller = "rag_agent"
    /\ raised = "chat"
    /\ path = "selected_text"
    /\ chunks # <<>>
    /\ pc = "done"

\* The search of the request has returned (it neither is pending nor raised).
RetrievalReturned == pc \in {"generate", "done"} /\ raised \notin {"embed", "search"}

\* C2: on the whole-corpus path, whenever retrieval returns an empty sequence
\* the result is the fixed refusal with no citations and chunks_retrieved = 0,
\* and the generative model is not invoked for that request.
C2_EmptyRetrievalRefuses ==
    (caller = "rag_agent" /\ path = "full_book" /\ RetrievalReturned
        /\ searchResults = <<>>) =>
        /\ pc = "done"
        /\ outcome = "Refused"
        /\ result.answer = FALLBACK_RESPONSE
        /\ result.citations = <<>>
        /\ result.chunks_retrieved = 0
        /\ calls.chat = 0

C2_Witness ==
    /\ caller = "rag_agent"
    /\ path = "full_book"
    /\ RetrievalReturned
    /\ searchResults = <<>>
    /\ raised = ""
    /\ pc = "done"

\* selected_text is non-empty after trimming surrounding whitespace.
NonBlank(selected_text) ==
    /\ selected_text # None
    /\ \E i \in 1..Len(selected_text) : selected_text[i].c \notin Whitespace

\* C4: for a ChatRequest submitted without a mode field, detect_mode returns
\* selected_text when selected_text is non-empty after trimming, and
\* full_book when it is None, empty or whitespace-only.
C4_AutoDetect ==
    (caller = "rag_agent" /\ modeField = Absent /\ pc # "new") =>
        detected = IF NonBlank(request.selected_text)
                   THEN "selected_text"
                   ELSE "full_book"

C6_OneTerminalOutcome ==
    /\ <>(pc = "done" /\ outcome \in {"Answered", "Refused"} /\ nresults = 1)
    /\ [](nresults <= 1)
    /\ [][outcome # "none" =>
             calls' = calls /\ outcome' = outcome /\ result' = result]_vars

\* A request answered after all three calls.
C6_Witness ==
    /\ caller = "rag_agent"
    /\ pc = "done"
    /\ outcome = "Answered"
    /\ calls = [embed |-> 1, search |-> 1, chat |-> 1]
    /\ nresults = 1

\* C7: whenever the pinned-passage path of RAGAgent runs, the passage placed
\* in the forced context is non-empty.
C7_PassageNonEmpty ==
    (caller = "rag_agent" /\ path = "selected_text") => StrLen(forced) > 0

\* C8: on every successful pinned-passage answer, citations[0] is the
\* user-selection citation (chunk_id "selected", score 1.0) and the others
\* correspond one-to-one, in retrieval order, to the additional units.
C8_SelectionCitedFirst ==
    (caller = "rag_agent" /\ path = "selected_text" /\ outcome = "Answered") =>
        LET cs == result.citations
        IN  /\ Len(cs) = Len(searchResults) + 1
            /\ cs[1].chunk_id = "selected"
            /\ cs[1].score = SelectedScore
            /\ \A i \in 1..Len(searchResults) :
                  /\ cs[i + 1].chunk_id = searchResults[i].chunk_id
                  /\ cs[i + 1].source = searchResults[i].source_file
                  /\ cs[i + 1].score = searchResults[i].score

\* A pinned-passage answer with two different additional units.
C8_Witness ==
    /\ caller = "rag_agent"
    /\ path = "selected_text"
    /\ outcome = "Answered"
    /\ Len(searchResults) = 2
    /\ searchResults[1].chunk_id # searchResults[2].chunk_id

\* C26: in every result returned by RAGAgent.chat (answered, refused on
\* empty evidence, or fallback after an exception), chunks_retrieved equals
\* the number of citations in the result.
C26_ChunksRetrievedCountsCitations ==
    (caller = "rag_agent" /\ pc = "done") =>
        /\ nresults = 1
        /\ result.chunks_retrieved = Len(result.citations)

\* A pinned-passage answer with two additional chunks: three citations.
C26_Witness ==
    /\ caller = "rag_agent"
    /\ pc = "done"
    /\ path = "selected_text"
    /\ outcome = "Answered"
    /\ Len(chunks) = 2
    /\ result.chunks_retrieved = 3

\* C27: the mode reported in the result of RAGAgent.chat names the path that
\* was actually executed: it is "selected_text" only if the pinned-passage
\* path ran and "full_book" only if the whole-corpus path ran, for every
\* combination of mode argument and selected_text.
C27_ModeNamesPath ==
    (caller = "rag_agent" /\ pc = "done") =>
        /\ result.mode = "selected_text" => path = "selected_text"
        /\ result.mode = "full_book" => path = "full_book"

-----------------------------------------------------------------------------
(* Claims about answer_with_selected_text *)

SetMin(S) == CHOOSE x \in S : \A y \in S : x <= y

SetMax(S) == CHOOSE x \in S : \A y \in S : x >= y

\* t is the first characters of s.
IsPrefix(t, s) ==
    \/ t = <<>>
    \/ /\ Len(t) <= Len(s)
       /\ \A i \in 1..(Len(t) - 1) : t[i] = s[i]
       /\ t[Len(t)].c = s[Len(t)].c
       /\ t[Len(t)].n <= s[Len(t)].n

\* s from its first to its last character that is not whitespace.
Trimmed(s) ==
    LET inked == {i \in 1..Len(s) : s[i].c \notin Whitespace}
    IN  IF inked = {} THEN <<>> ELSE SubSeq(s, SetMin(inked), SetMax(inked))

\* C9: answer_with_selected_text never rejects its input: the passage of
\* forced_context is the input trimmed of surrounding whitespace and then cut
\* to its first 5000 characters, whatever was retrieved, and with
\* retrieve_additional the text embedded is that passage.
C9_PassageTrimmedAndCapped ==
    (caller = "selected_text_agent" /\ pc # "new") =>
        /\ IsPrefix(forced, Trimmed(request.selected_text))
        /\ StrLen(forced) = Min(StrLen(Trimmed(request.selected_text)), 5000)
        /\ (calls.embed > 0) = request.retrieve_additional
        /\ calls.embed > 0 => embedded = forced
        /\ outcome = "Raised" => raised # ""
        /\ (pc = "done" /\ raised = "") =>
              /\ outcome = "Returned"
              /\ result.forced_context.passage = forced
              /\ result.selected_text = forced

\* A passage with leading whitespace and more than 5000 characters, cut and
\* embedded, and returned with the additional units.
C9_Witness ==
    /\ caller = "selected_text_agent"
    /\ pc = "done"
    /\ outcome = "Returned"
    /\ request.selected_text # <<>>
    /\ Head(request.selected_text).c = " "
    /\ StrLen(Trimmed(request.selected_text)) > 5000
    /\ StrLen(forced) = 5000
    /\ calls.embed = 1
    /\ searchResults # <<>>

-----------------------------------------------------------------------------
(* Claims about the served endpoint *)

\* C3: on the served chat endpoint, whenever grounding cannot be established,
\* because retrieval yields no usable evidence or because the embedding, the
\* search or the generation call raises, the answer is the fixed refusal
\* string and the citations are empty.
C3_ServedRefusal ==
    (caller = "rag_chat" /\ pc = "done"
        /\ (raised # "" \/ RelevantChunks(chunks) = <<>>)) =>
        /\ result.answer = "I cannot answer this from the book content provided."
        /\ result.citations = <<>>

\* The places in the retrieved chunks of those whose score is at least 0.4.
AtFloor == {i \in 1..Len(chunks) : chunks[i].score >= RelevanceFloor}

-----------------------------------------------------------------------------
(* Claims about chunk_text *)

\* C10: for all inputs of chunk_text and all produced units,
\* token_count <= chunk_size / 4, except when the input is a single paragraph
\* that exceeds chunk_size on its own.
C10_TokenBound ==
    (caller = "chunking_service" /\ pc = "done"
        /\ ~(Len(paragraphs) = 1 /\ StrLen(paragraphs[1]) > service.chunk_size)) =>
        \A i \in 1..Len(chunks_out) :
            4 * chunks_out[i].token_count <= service.chunk_size

\* C11: for every input text, one whose paragraphs are each longer than
\* chunk_size included, every chunk returned by chunk_text has
\* token_count <= chunk_size.
C11_ChunksRespectSize ==
    (caller = "chunking_service" /\ pc = "done" /\ service.chunk_overlap > 0) =>
        \A i \in 1..Len(chunks_out) :
            chunks_out[i].token_count <= service.chunk_size

\* C12: the units emitted by one chunk_text call carry the given source_file
\* and the positions 0, 1, 2, ... in emission order.
C12_PositionsInOrder ==
    caller = "chunking_service" =>
        \A i \in 1..Len(chunks_out) :
            /\ chunks_out[i].position = i - 1
            /\ chunks_out[i].source_file = source_file

\* A call that has returned three units.
C12_Witness ==
    /\ caller = "chunking_service"
    /\ pc = "done"
    /\ Len(chunks_out) = 3

\* The words of a unit.
Words(unit) == SplitWords(unit.text, <<>>)

\* The first k words of one unit are the last k words of the unit before it.
SharesWords(unit, before, k) ==
    /\ k <= Len(Words(unit))
    /\ k <= Len(Words(before))
    /\ SubSeq(Words(unit), 1, k)
          = SubSeq(Words(before), Len(Words(before)) - k + 1, Len(Words(before)))

\* C13 as stated: when chunk_overlap > 0 and more than one unit is produced,
\* every unit after the first begins with at least chunk_overlap words that
\* are the trailing words of the preceding unit.
C13_OverlapWords ==
    (caller = "chunking_service" /\ pc = "done" /\ service.chunk_overlap > 0) =>
        \A i \in 2..Len(chunks_out) :
            \E k \in service.chunk_overlap..Len(Words(chunks_out[i])) :
                SharesWords(chunks_out[i], chunks_out[i - 1], k)

\* C13, amended: every unit after the first begins with the trailing words of
\* the preceding unit, at least chunk_overlap of them or, when the preceding
\* unit has fewer words, all of its words.
C13_OverlapWordsUpToAll ==
    (caller = "chunking_service" /\ pc = "done" /\ service.chunk_overlap > 0) =>
        \A i \in 2..Len(chunks_out) :
            \E k \in Min(service.chunk_overlap, Len(Words(chunks_out[i - 1])))
                        ..Len(Words(chunks_out[i])) :
                SharesWords(chunks_out[i], chunks_out[i - 1], k)

\* Two units, the first of two words and fewer of them wanted as overlap.
C13_Witness ==
    /\ caller = "chunking_service"
    /\ pc = "done"
    /\ Len(chunks_out) >= 2
    /\ Len(Words(chunks_out[1])) > service.chunk_overlap

\* t is the last characters of s.
IsSuffix(t, s) ==
    \/ t = <<>>
    \/ /\ Len(t) <= Len(s)
       /\ \A i \in 2..Len(t) : t[i] = s[Len(s) - Len(t) + i]
       /\ t[1].c = s[Len(s) - Len(t) + 1].c
       /\ t[1].n <= s[Len(s) - Len(t) + 1].n

\* C14: chunk_text loses no content: the paragraphs of the input appear
\* whole and in input order, each in exactly one unit and after that unit's
\* overlap prefix; the last buffer is emitted as the last unit whatever its
\* size; an input with no non-empty paragraph yields no unit.
C14_NoContentLost ==
    (caller = "chunking_service" /\ pc = "done") =>
        LET n == Len(paragraphs)
            k == Len(chunks_out)
        IN  /\ n = 0 <=> k = 0
            /\ n > 0 =>
                  /\ chunks_out[k].text = Strip(current_chunk)
                  /\ \E last \in [1..k -> 1..n] :
                        /\ last[k] = n
                        /\ \A i \in 1..k :
                              LET first == IF i = 1 THEN 1 ELSE last[i - 1] + 1
                                  body == Join(SubSeq(paragraphs, first, last[i]),
                                               ParagraphBreak)
                              IN  /\ first <= last[i]
                                  /\ IF i = 1
                                     THEN chunks_out[i].text = body
                                     ELSE IsSuffix(Concat(ParagraphBreak, body),
                                                   chunks_out[i].text)

\* Three paragraphs in two units, the last unit larger than chunk_size.
C14_Witness ==
    /\ caller = "chunking_service"
    /\ pc = "done"
    /\ Len(paragraphs) = 3
    /\ Len(chunks_out) = 2
    /\ StrLen(chunks_out[2].text) > service.chunk_size

\* C28: a segmentation configured with chunk_overlap = 0 seeds no overlap:
\* every unit after the first begins with its first new paragraph and carries
\* over no words from the preceding unit, so that the units are the
\* paragraphs of the input, each once, in consecutive groups.
C28_ZeroOverlapSeedsNothing ==
    (caller = "chunking_service" /\ pc = "done"
        /\ \E chunk_size \in ChunkSizeArgs :
              service = ChunkingService(chunk_size, 0)) =>
        LET n == Len(paragraphs)
            k == Len(chunks_out)
        IN  n > 0 =>
               \E last \in [1..k -> 1..n] :
                  /\ last[k] = n
                  /\ \A i \in 1..k :
                        LET first == IF i = 1 THEN 1 ELSE last[i - 1] + 1
                        IN  /\ first <= last[i]
                            /\ chunks_out[i].text
                                  = Join(SubSeq(paragraphs, first, last[i]),
                                         ParagraphBreak)

\* A line that is a heading of the given level: the hashes, blanks, a title.
IsHeading(line, hashes) ==
    /\ Len(line) >= 3
    /\ line[1] = Run("#", hashes)
    /\ line[2].c \in {" ", "\t"}

\* The lines of the source text, trimmed.
SourceLines == {Strip(l) : l \in {SplitLines(text, <<>>)[i] :
                                     i \in 1..Len(SplitLines(text, <<>>))}}

\* The expected tag of a buffer: the title of its first heading of the level,
\* which is a heading of the source text.
TagIsFirstHeading(tag, buffer, hashes) ==
    LET lines == SplitLines(buffer, <<>>)
        headings == {i \in 1..Len(lines) : IsHeading(lines[i], hashes)}
    IN  IF headings = {}
        THEN tag = None
        ELSE /\ tag = Strip(Tail(lines[SetMin(headings)]))
             /\ Strip(lines[SetMin(headings)]) \in SourceLines

\* C15: each unit's chapter is the title of the first level-1 heading and its
\* section the title of the first level-2 heading of the source text
\* contained in the unit's closed buffer, each None when the buffer contains
\* no such heading; a level-2 heading is never taken as a chapter.
C15_HeadingTags ==
    (caller = "chunking_service" /\ pc = "done") =>
        \A i \in 1..Len(chunks_out) :
            /\ TagIsFirstHeading(chunks_out[i].chapter, chunks_out[i].text, 1)
            /\ TagIsFirstHeading(chunks_out[i].section, chunks_out[i].text, 2)

-----------------------------------------------------------------------------
(* Claims about the context assemblers and the citation extractors *)

\* The header line the claim describes for a unit.
BracketedHeader(unit) ==
    IF TruthyField(Get(unit, "chapter", "None"))
    THEN "[" \o Get(unit, "source_file", "unknown") \o " - " \o unit.chapter \o "]"
    ELSE "[" \o Get(unit, "source_file", "unknown") \o "]"

\* C16: _build_context and build_context render each unit as the header line
\* "[<source_file>]", or "[<source_file> - <chapter>]" when the unit has a
\* chapter, the closing bracket present, then a newline and the unit text;
\* the units are joined with one blank line, in the order given.
C16_ContextRendering ==
    (caller \in ContextBuilders /\ pc = "done") =>
        result.context =
            JoinStr([i \in 1..Len(chunks) |->
                        BracketedHeader(chunks[i]) \o "\n" \o Str(chunks[i].text)],
                    "\n\n")

\* C17: citation extraction is one-to-one with its input and keeps its order:
\* the i-th citation comes from the i-th unit, its snippet is the first 200
\* characters of the text followed by "..." when the text is longer than 200
\* characters and the text itself otherwise, and its score is the unit's
\* score, or 0.0 when the unit carries none.
C17_CitationsOneToOne ==
    (caller \in CitationExtractors /\ pc = "done" /\ outcome = "Returned") =>
        /\ Len(result.citations) = Len(chunks)
        /\ \A i \in 1..Len(chunks) :
              LET citation == result.citations[i]
                  unit == chunks[i]
              IN  /\ citation.chunk_id = unit.chunk_id
                  /\ citation.source = unit.source_file
                  /\ IF StrLen(unit.text) > 200
                     THEN /\ StrLen(citation.text) = 200 + 3
                          /\ citation.text[Len(citation.text)] = Run(".", 3)
                          /\ IsPrefix(SubSeq(citation.text, 1,
                                             Len(citation.text) - 1), unit.text)
                     ELSE citation.text = unit.text
                  /\ citation.score = IF "score" \in DOMAIN unit
                                      THEN unit.score
                                      ELSE 0

\* Two units cited, one of more than 200 characters and then one without a
\* score.
C17_Witness ==
    /\ caller \in CitationExtractors
    /\ pc = "done"
    /\ outcome = "Returned"
    /\ Len(chunks) = 2
    /\ StrLen(chunks[1].text) > 200
    /\ "score" \notin DOMAIN chunks[2]

-----------------------------------------------------------------------------
(* Claims about RetrieverAgent.retrieve *)

\* No chunk_id is found twice in the sequence.
NoUnitTwice(units) ==
    \A i, j \in 1..Len(units) : units[i].chunk_id = units[j].chunk_id => i = j

\* C18 as stated: for one call of RetrieverAgent.retrieve no unit (chunk_id)
\* appears twice in the returned sequence, whatever sequence of points the
\* vector index returns.
C18_NoUnitTwice ==
    (caller = "rag_agent" /\ path = "full_book" /\ RetrievalReturned) =>
        NoUnitTwice(chunks)

\* C18, amended: retrieve returns one unit per point the vector index
\* returned, in the order of the index, so that no unit appears twice if the
\* index returns no point twice; retrieve itself removes no duplicate.
C18_NoUnitTwiceIfNoPointTwice ==
    (caller = "rag_agent" /\ path = "full_book" /\ RetrievalReturned) =>
        /\ Len(chunks) = Len(searchResults)
        /\ \A i \in 1..Len(chunks) : chunks[i].chunk_id = searchResults[i].chunk_id
        /\ NoUnitTwice(searchResults) <=> NoUnitTwice(chunks)

\* The index has returned two different points to retrieve.
C18_Witness ==
    /\ caller = "rag_agent"
    /\ path = "full_book"
    /\ RetrievalReturned
    /\ Len(searchResults) = 2
    /\ NoUnitTwice(searchResults)

-----------------------------------------------------------------------------
(* Claims about ingestion *)

\* The k-th upsert call of the run is the first attempt of its batch.
FirstAttempt(k) == k = 1 \/ upserts[k - 1].batch # upserts[k].batch

\* C19: in _store_in_qdrant every batch is attempted at most twice: a failed
\* first write is retried exactly once after the fixed delay; if the retry
\* succeeds the run goes on with the next batch; if it fails too the
\* exception is raised to the caller of ingest, the run stops and no later
\* batch is attempted.
C19_RetryOnceThenFatal ==
    caller = "ingest" =>
        \A k \in 1..Len(upserts) :
            /\ Cardinality({j \in 1..Len(upserts) :
                               upserts[j].batch = upserts[k].batch}) <= 2
            /\ FirstAttempt(k) =>
                  /\ upserts[k].delay = 0
                  /\ ~upserts[k].ok =>
                        IF k < Len(upserts)
                        THEN /\ upserts[k + 1].batch = upserts[k].batch
                             /\ upserts[k + 1].delay = RetryDelay
                        ELSE /\ pc = "upsert"
                             /\ retrying
                             /\ batch_start = upserts[k].batch
                             /\ ingested = "none"
            /\ ~FirstAttempt(k) =>
                  IF upserts[k].ok
                  THEN IF k < Len(upserts)
                       THEN upserts[k + 1].batch = upserts[k].batch + UpsertBatchSize
                       ELSE \/ /\ pc = "upsert"
                               /\ ~retrying
                               /\ batch_start = upserts[k].batch + UpsertBatchSize
                            \/ /\ ingested = "returned"
                               /\ upserts[k].batch + UpsertBatchSize
                                     >= orchestrator.chunks
                  ELSE /\ k = Len(upserts)
                       /\ ingested = "raised"
                       /\ pc = "idle"
                       /\ entry = "ingest_book" => response.status = 500

\* The first batch stored at the retry, the second failing twice.
C19_Witness ==
    /\ caller = "ingest"
    /\ Len(upserts) = 4
    /\ ~upserts[1].ok
    /\ upserts[2].ok
    /\ upserts[3].batch = UpsertBatchSize
    /\ ~upserts[3].ok
    /\ ~upserts[4].ok
    /\ ingested = "raised"

\* The points of the index that come from a source.
LiveUnits(book_path) == {p \in index : p.source_file = book_path}

\* C20: re-ingestion is idempotent: after an unchanged source was ingested
\* again, the delete of the given book_id followed by the upsert, the index
\* holds exactly one live unit for each original position of the source and
\* no others, however often that is repeated.
C20_ReingestionIdempotent ==
    (caller = "ingest" /\ pc = "idle" /\ ingested = "returned") =>
        LET book_path == ingest_request.book_path
        IN  /\ \A position \in 0..(ChunksOf(book_path) - 1) :
                  Cardinality({p \in LiveUnits(book_path) :
                                  p.position = position}) = 1
            /\ Cardinality(LiveUnits(book_path)) = ChunksOf(book_path)

\* The same source ingested a second time through the endpoint, under the
\* book id of its points, which the delete has removed before the upsert.
C20_Witness ==
    /\ caller = "ingest"
    /\ pc = "idle"
    /\ ingested = "returned"
    /\ entry = "ingest_book"
    /\ Len(completed) >= 2
    /\ completed[Len(completed) - 1].book_path = ingest_request.book_path
    /\ ingest_request.book_id = generate_book_id(ingest_request.book_path)
    /\ Len(deletes) = 2

\* C29: after any sequence of completed ingestion runs (command-line or
\* endpoint) of the same source path, the points in the index carrying that
\* source's book_id are exactly the chunks of the most recent run: no point
\* written by an earlier run that produced more chunks survives.
C29_OnlyLatestRunSurvives ==
    (caller = "ingest" /\ pc = "idle" /\ ingested = "returned") =>
        {p \in index : p.book_id = generate_book_id(ingest_request.book_path)}
           = {Point(orchestrator.book_id, i, orchestrator.book_path, runs) :
                 i \in 0..(orchestrator.chunks - 1)}

\* The points the current run has written so far.
PointsOfRun ==
    UNION {Batch(orchestrator, upserts[k].batch, runs) :
              k \in {j \in 1..Len(upserts) : upserts[j].ok}}

\* C21: when an ingest request supplies book_id B, the deletes act on B,
\* every chunk the run stores is stored under book_id B and the response's
\* book_id is B, so that the delete and the upsert act on the same book.
C21_GivenBookIdUsed ==
    (caller = "ingest" /\ entry = "ingest_book"
        /\ ingest_request.book_id # "None") =>
        /\ \A k \in 1..Len(deletes) :
              deletes[k].book_id = ingest_request.book_id
        /\ \A p \in PointsOfRun : p.book_id = ingest_request.book_id
        /\ (ingested = "returned" /\ response.status = 200) =>
              response.book_id = ingest_request.book_id

\* C22: the ingest endpoint rejects a book_path that does not exist with
\* status 400, and in that case performs no delete and no write on the index
\* or the metadata store.
C22_MissingPathRejected ==
    (caller = "ingest" /\ entry = "ingest_book"
        /\ ~PathExists(ingest_request.book_path)) =>
        /\ pc = "idle"
        /\ response.status = 400
        /\ deletes = <<>>
        /\ upserts = <<>>

\* C23: when the ingestion run behind the ingest endpoint completes without
\* any failure, the endpoint returns a success IngestResponse carrying
\* book_id, chunks_created and status, not an error response.
C23_CompletedRunAnswersSuccess ==
    (caller = "ingest" /\ entry = "ingest_book" /\ pc = "idle"
        /\ ingested = "returned") =>
        /\ response.status = 200
        /\ response.book_id = orchestrator.book_id
        /\ response.chunks_created = orchestrator.chunks

-----------------------------------------------------------------------------
(* Claims about chat_stream *)

\* The delta events among the first k events, concatenated in emission order.
RECURSIVE JoinedDeltas(_)
JoinedDeltas(k) ==
    IF k = 0 THEN ""
    ELSE IF events[k].type = "delta"
         THEN JoinedDeltas(k - 1) \o events[k].delta
         ELSE JoinedDeltas(k - 1)

\* What has been emitted is deltas of at most 24 characters that make up the
\* first characters of the answer, with one final event, the last event,
\* once the stream has ended.
StreamInOrder ==
    /\ \A k \in 1..Len(events) :
          /\ events[k].type \in {"delta", "final"}
          /\ events[k].type = "delta" =>
                /\ Len(events[k].delta) <= 24
                /\ stream = "closed" => k < Len(events)
          /\ events[k].type = "final" =>
                /\ k = Len(events)
                /\ stream = "closed"
                /\ events[k].citations = result.citations
                /\ events[k].mode = result.mode
                /\ events[k].chunks_retrieved = result.chunks_retrieved
    /\ stream = "closed" =>
          /\ events # <<>>
          /\ events[Len(events)].type = "final"
          /\ JoinedDeltas(Len(events)) = result.answer
    /\ stream = "sleep" =>
          JoinedDeltas(Len(events))
             = SubSeq(result.answer, 1, Len(JoinedDeltas(Len(events))))

\* C24: chat_stream emits the already-complete answer as delta events of at
\* most 24 characters each whose concatenation in emission order equals the
\* whole answer, followed by exactly one final event carrying citations and
\* metadata; no delta is emitted after the final event.
C24_DeltasThenFinal ==
    /\ [](stream # "off" => StreamInOrder)
    /\ <>(stream = "closed")
    /\ [][stream = "closed" => events' = events]_vars

\* A grounded answer of more than two slices, the last one shorter, streamed
\* to its end.
C24_Witness ==
    /\ stream = "closed"
    /\ Len(events) = 4
    /\ Len(events[3].delta) \in 1..(StreamChunkSize - 1)
    /\ events[4].citations # <<>>

-----------------------------------------------------------------------------
(* Claims about DatabaseConnection *)

\* C30: under any interleaving of concurrent create_pool / get_connection /
\* execute calls that start while no pool exists, exactly one connection pool
\* is created and every caller uses that pool; no created pool is overwritten
\* and left unclosed.
C30_OnePool ==
    caller = "database" =>
        /\ Cardinality(pools) <= 1
        /\ pools \subseteq {pool}
        /\ \A t \in Tasks : tasks[t].uses \in {0, pool}
        /\ (\A t \in Tasks : tasks[t].pc = "done") => Cardinality(pools) = 1

=============================================================================
